---- MODULE Spec2Model ----
(***************************************************************************)
(* A model of aliexpress_api/api.py: the AliexpressApi client, its nine    *)
(* operations, the per-client category cache and the process-wide signing  *)
(* context.                                                                *)
(*                                                                         *)
(* Python values are tagged records: None, str, list, int, tuple.          *)
(* A str is a sequence of tokens (characters), so that joining, splitting  *)
(* and str() are computed and not assumed.                                 *)
(***************************************************************************)
EXTENDS Integers, Sequences, FiniteSets, TLC

\* ------------------------------------------------------------------ bounds
\* Clients constructed in one process.
MaxClients == 2
\* Records (products, links, orders) carried by one response envelope.
MaxRecords == 2
\* Categories carried by one category envelope.
MaxCats == 3
\* Elements of a list given as a list-or-scalar argument.
MaxList == 2

\* ----------------------------------------------------------- Python values
\* One record shape for all of them: s holds a str's tokens, n an int's value,
\* l a list's elements (each a str's tokens), e a tuple's elements.
None == [t |-> "none", s |-> <<>>, n |-> 0, l |-> <<>>, e |-> <<>>]
PyStr(x) == [t |-> "str", s |-> x, n |-> 0, l |-> <<>>, e |-> <<>>]
PyList(x) == [t |-> "list", s |-> <<>>, n |-> 0, l |-> x, e |-> <<>>]
PyInt(x) == [t |-> "int", s |-> <<>>, n |-> x, l |-> <<>>, e |-> <<>>]
\* The one-element tuple (x,).
PyTuple1(x) == [t |-> "tuple", s |-> <<>>, n |-> 0, l |-> <<>>, e |-> <<x>>]

\* Python truthiness.
Truthy(x) ==
    CASE x.t = "none" -> FALSE
      [] x.t = "str" -> x.s # <<>>
      [] x.t = "list" -> x.l # <<>>
      [] x.t = "int" -> x.n # 0
      [] x.t = "tuple" -> x.e # <<>>

\* ','.join(l) for a sequence l of strings (each a sequence of tokens).
RECURSIVE Join(_)
Join(l) ==
    IF l = <<>> THEN <<>>
    ELSE IF Len(l) = 1 THEN l[1]
    ELSE l[1] \o <<",">> \o Join(Tail(l))

\* The decimal digits of a natural number.
Digit(d) == CASE d = 0 -> "0" [] d = 1 -> "1" [] d = 2 -> "2" [] d = 3 -> "3"
              [] d = 4 -> "4" [] d = 5 -> "5" [] d = 6 -> "6" [] d = 7 -> "7"
              [] d = 8 -> "8" [] d = 9 -> "9"

RECURSIVE Digits(_)
Digits(n) == IF n < 10 THEN <<Digit(n)>> ELSE Digits(n \div 10) \o <<Digit(n % 10)>>

\* Python's str(x) for None, int and str.
str(x) ==
    CASE x.t = "none" -> PyStr(<<"N", "o", "n", "e">>)
      [] x.t = "int" -> PyStr(Digits(x.n))
      [] x.t = "str" -> x

\* All sequences over S of length at most n.
SeqsUpTo(S, n) == UNION {[1..k -> S] : k \in 0..n}

\* -------------------------------------------------------------- helpers
\* helpers.get_list_as_string: a list or a string becomes one comma-joined
\* string; None and empty inputs become None.
get_list_as_string(value) ==
    CASE value.t = "none" -> None
      [] value.t = "str" -> IF value.s = <<>> THEN None ELSE value
      [] value.t = "list" -> IF value.l = <<>> THEN None ELSE PyStr(Join(value.l))

\* The join that get_order_list writes inline for its fields.
order_fields(fields) ==
    IF fields.t = "list" THEN PyStr(Join(fields.l)) ELSE fields

\* helpers.get_product_ids: the ids of one scalar or of a list, as a list.
get_product_ids(values) ==
    IF values.t = "str" THEN PyList(<<values.s>>) ELSE values

\* helpers.parse_products: every raw product record becomes a parsed one,
\* in order.
parse_products(products) ==
    [i \in 1..Len(products) |-> [parsed |-> products[i]]]

\* ------------------------------------------------------------- categories
Category(id) == [category_id |-> id, has_parent |-> FALSE, parent_category_id |-> 0]
ChildCategory(id, parent) ==
    [category_id |-> id, has_parent |-> TRUE, parent_category_id |-> parent]

\* The categories the remote side knows: one parent and two children of two
\* other parents.
AllCategories == {Category(1), ChildCategory(2, 100), ChildCategory(3, 200)}

ParentIds == {100, 200}

\* helpers.categories.filter_parent_categories
filter_parent_categories(categories) ==
    SelectSeq(categories, LAMBDA c : ~c.has_parent)

\* helpers.categories.filter_child_categories
filter_child_categories(categories, parent_category_id) ==
    SelectSeq(categories,
              LAMBDA c : c.has_parent /\ c.parent_category_id = parent_category_id)

\* self.categories: None, or the list a category fetch stored.
NoCategories == [t |-> "none", list |-> <<>>]
CategoryList(l) == [t |-> "list", list |-> l]

\* `not self.categories` is true of None and of the empty list.
HasCategories(cache) == cache.t = "list" /\ cache.list # <<>>

VARIABLES
    clients,          \* the clients constructed so far, in order of construction
    defaultAppInfo,   \* the vendor SDK's process-wide signing context
    fetched,          \* per client: the list of its latest successful category fetch
    last              \* the latest method invocation and what it did

vars == <<clients, defaultAppInfo, fetched, last>>

\* ---------------------------------------------------------------- transport
\* skd.setDefaultAppInfo: the credentials every later request is signed with.
setDefaultAppInfo(key, secret) == [key |-> key, secret |-> secret]

NoAppInfo == [key |-> "", secret |-> ""]

\* helpers.api_request: one call of the vendor transport, sent under the
\* signing context registered at that moment.
api_request(request, name) ==
    [name |-> name, request |-> request, appinfo |-> defaultAppInfo]

\* What one transport call answers.  A failure carries the exception the
\* transport raises.  An envelope carries its record count and its records;
\* the count is the number of records (a response in which they disagree is
\* malformed, and the transport reports it as a failure).  `field` says how the envelope holds
\* its products: as an object with the record list, as a falsy value, or not
\* at all.
TransportError(exc) == [error |-> exc, count |-> 0, field |-> "missing", records |-> <<>>]
Envelope(records) ==
    [error |-> "", count |-> Len(records), field |-> "object", records |-> records]
EnvelopeWithout(field) == [error |-> "", count |-> 0, field |-> field, records |-> <<>>]

TransportErrors ==
    {TransportError(e) : e \in {"ApiRequestException", "ApiRequestResponseException"}}

\* ------------------------------------------------------- one invocation
NoCall == [sent |-> <<>>, received |-> <<>>]

NoResult == <<>>

\* execute, were a failed call sent a second time.
execute_retrying(request, name, resp) ==
    IF resp.error # ""
    THEN [sent |-> <<api_request(request, name), api_request(request, name)>>,
          received |-> <<resp, resp>>]
    ELSE [sent |-> <<api_request(request, name)>>, received |-> <<resp>>]

\* `response = api_request(request, name)`: the invocation's transport call.
execute(request, name, resp) ==
    [sent |-> <<api_request(request, name)>>, received |-> <<resp>>]

Raise(x, exc, categories) ==
    [sent |-> x.sent, received |-> x.received, outcome |-> exc,
     result |-> NoResult, parsed |-> 0, categories |-> categories]

Return(x, result, parsed, categories) ==
    [sent |-> x.sent, received |-> x.received, outcome |-> "return",
     result |-> result, parsed |-> parsed, categories |-> categories]

\* found, were the comparison `>= 0`.
found_or_zero(resp) == resp.count >= 0

\* `response.current_record_count > 0` / `response.total_result_count > 0`
found(resp) == resp.count > 0

\* smart_found, were the record count tested as in the other operations.
smart_found_by_count(resp) == resp.count > 0

\* `hasattr(response, 'products') and response.products`
smart_found(resp) == resp.field # "missing" /\ resp.field # "falsy"

\* tracking_id_missing, were the test `is None`.
tracking_id_is_none(self) == self.tracking_id = None

\* `if not self._tracking_id`
tracking_id_missing(self) == ~Truthy(self.tracking_id)

\* must_fetch, were use_cache ignored.
must_fetch_when_empty(use_cache, categories) == ~HasCategories(categories)

\* `if not use_cache or not self.categories`
must_fetch(use_cache, categories) == ~use_cache \/ ~HasCategories(categories)

\* stored, were the fetched categories added to the cached ones.
stored_extending(categories, resp) == CategoryList(categories.list \o resp.records)

\* `self.categories = response.categories.category`
stored(categories, resp) == CategoryList(resp.records)

\* registered, were the context written only while none is registered.
registered_once(key, secret, current) ==
    IF current = NoAppInfo THEN setDefaultAppInfo(key, secret) ELSE current

\* `setDefaultAppInfo(self._key, self._secret)` in __init__
registered(key, secret, current) == setDefaultAppInfo(key, secret)

\* ------------------------------------------------------------- operations
get_products_details(self, a, resp) ==
    LET product_ids == get_list_as_string(get_product_ids(a.product_ids))
        request == [app_signature |-> self.app_signature,
                    fields |-> get_list_as_string(a.fields),
                    product_ids |-> product_ids,
                    country |-> a.country,
                    target_currency |-> self.currency,
                    target_language |-> self.language,
                    tracking_id |-> self.tracking_id]
        x == execute(request, "aliexpress_affiliate_productdetail_get_response", resp)
    IN  IF resp.error # "" THEN Raise(x, resp.error, self.categories)
        ELSE IF found(resp)
        THEN Return(x, parse_products(resp.records), 1, self.categories)
        ELSE Raise(x, "ProductsNotFoudException", self.categories)

get_affiliate_links(self, a, resp) ==
    IF tracking_id_missing(self)
    THEN Raise(NoCall, "InvalidTrackingIdException", self.categories)
    ELSE
    LET links == get_list_as_string(a.links)
        request == [app_signature |-> self.app_signature,
                    source_values |-> links,
                    promotion_link_type |-> a.link_type,
                    tracking_id |-> self.tracking_id]
        x == execute(request, "aliexpress_affiliate_link_generate_response", resp)
    IN  IF resp.error # "" THEN Raise(x, resp.error, self.categories)
        ELSE IF found(resp)
        THEN Return(x, resp.records, 0, self.categories)
        ELSE Raise(x, "ProductsNotFoudException", self.categories)

\* The request get_hotproducts and get_products both build.
product_query_request(self, a) ==
    [app_signature |-> self.app_signature,
     category_ids |-> get_list_as_string(a.category_ids),
     delivery_days |-> str(a.delivery_days),
     fields |-> get_list_as_string(a.fields),
     keywords |-> a.keywords,
     max_sale_price |-> a.max_sale_price,
     min_sale_price |-> a.min_sale_price,
     page_no |-> a.page_no,
     page_size |-> a.page_size,
     platform_product_type |-> a.platform_product_type,
     ship_to_country |-> a.ship_to_country,
     sort |-> a.sort,
     target_currency |-> self.currency,
     target_language |-> self.language,
     tracking_id |-> self.tracking_id]

\* The envelope with its products replaced by the parsed ones.
with_parsed_products(resp) ==
    [count |-> resp.count, products |-> parse_products(resp.records)]

get_hotproducts(self, a, resp) ==
    LET x == execute(product_query_request(self, a),
                     "aliexpress_affiliate_hotproduct_query_response", resp)
    IN  IF resp.error # "" THEN Raise(x, resp.error, self.categories)
        ELSE IF found(resp)
        THEN Return(x, with_parsed_products(resp), 1, self.categories)
        ELSE Raise(x, "ProductsNotFoudException", self.categories)

get_products(self, a, resp) ==
    LET x == execute(product_query_request(self, a),
                     "aliexpress_affiliate_product_query_response", resp)
    IN  IF resp.error # "" THEN Raise(x, resp.error, self.categories)
        ELSE IF found(resp)
        THEN Return(x, with_parsed_products(resp), 1, self.categories)
        ELSE Raise(x, "ProductsNotFoudException", self.categories)

get_categories(self, a, resp) ==
    LET request == [app_signature |-> self.app_signature]
        x == execute(request, "aliexpress_affiliate_category_get_response", resp)
    IN  IF resp.error # "" THEN Raise(x, resp.error, self.categories)
        ELSE IF found(resp)
        THEN Return(x, stored(self.categories, resp).list, 0,
                    stored(self.categories, resp))
        ELSE Raise(x, "CategoriesNotFoudException", self.categories)

get_parent_categories(self, a, resp) ==
    IF must_fetch(a.use_cache, self.categories)
    THEN LET f == get_categories(self, a, resp)
         IN  IF f.outcome = "return"
             THEN Return(f, filter_parent_categories(f.categories.list), 0, f.categories)
             ELSE f
    ELSE Return(NoCall, filter_parent_categories(self.categories.list), 0,
                self.categories)

\* children_of, were the parent id not passed on.
children_of_any(categories, parent_category_id) ==
    SelectSeq(categories.list, LAMBDA c : c.has_parent)

\* `return filter_child_categories(self.categories, parent_category_id)`
children_of(categories, parent_category_id) ==
    filter_child_categories(categories.list, parent_category_id)

get_child_categories(self, a, resp) ==
    IF must_fetch(a.use_cache, self.categories)
    THEN LET f == get_categories(self, a, resp)
         IN  IF f.outcome = "return"
             THEN Return(f, children_of(f.categories, a.parent_category_id), 0,
                         f.categories)
             ELSE f
    ELSE Return(NoCall, children_of(self.categories, a.parent_category_id), 0,
                self.categories)

smart_match_product(self, a, resp) ==
    LET request == [app |-> PyTuple1(a.app),
                    app_signature |-> self.app_signature,
                    country |-> a.country,
                    device |-> a.device,
                    device_id |-> a.device_id,
                    fields |-> get_list_as_string(a.fields),
                    keywords |-> a.keywords,
                    page_no |-> a.page_no,
                    product_id |-> a.product_id,
                    site |-> a.site,
                    target_currency |-> a.target_currency,
                    target_language |-> a.target_language,
                    tracking_id |-> a.tracking_id,
                    user |-> a.user]
        x == execute(request, "aliexpress_affiliate_product_smartmatch_response", resp)
    IN  IF resp.error # "" THEN Raise(x, resp.error, self.categories)
        ELSE IF smart_found(resp)
        THEN Return(x, with_parsed_products(resp), 1, self.categories)
        ELSE Raise(x, "ProductsNotFoudException", self.categories)

get_order_list(self, a, resp) ==
    LET request == [app_signature |-> self.app_signature,
                    start_time |-> a.start_time,
                    end_time |-> a.end_time,
                    fields |-> order_fields(a.fields),
                    locale_site |-> a.locale_site,
                    page_no |-> a.page_no,
                    page_size |-> a.page_size,
                    status |-> a.status]
        x == execute(request, "aliexpress_affiliate_order_list_response", resp)
    IN  IF resp.error # "" THEN Raise(x, resp.error, self.categories)
        ELSE IF found(resp)
        THEN Return(x, resp, 0, self.categories)
        ELSE Raise(x, "OrdersNotFoundException", self.categories)

\* ------------------------------------------------------------ state machine
NoInvocation ==
    [op |-> "none", client |-> 0, args |-> <<>>, sent |-> <<>>, received |-> <<>>,
     outcome |-> "none", result |-> NoResult, parsed |-> 0]

Init ==
    /\ clients = <<>>
    /\ defaultAppInfo = NoAppInfo
    /\ fetched = <<>>
    /\ last = NoInvocation

CategoryEnvelope == "aliexpress_affiliate_category_get_response"

\* The category list a run fetched successfully, if it fetched one.
FetchedBy(r, before) ==
    IF /\ r.sent # <<>>
       /\ r.sent[1].name = CategoryEnvelope
       /\ r.received[1].error = ""
       /\ r.received[1].count > 0
    THEN CategoryList(r.received[1].records)
    ELSE before

\* AliexpressApi.__init__
Construct(key, secret, language, currency, tracking_id, app_signature) ==
    /\ clients' = Append(clients,
                         [key |-> key, secret |-> secret, tracking_id |-> tracking_id,
                          language |-> language, currency |-> currency,
                          app_signature |-> app_signature,
                          categories |-> NoCategories])
    /\ defaultAppInfo' = registered(key, secret, defaultAppInfo)
    /\ fetched' = Append(fetched, NoCategories)
    /\ last' = [NoInvocation EXCEPT !.op = "__init__", !.client = Len(clients) + 1,
                                    !.outcome = "return"]

\* One method call on client c: r is what the method's code does.
Invoke(c, op, a, r) ==
    /\ clients' = [clients EXCEPT ![c].categories = r.categories]
    /\ fetched' = [fetched EXCEPT ![c] = FetchedBy(r, @)]
    /\ last' = [op |-> op, client |-> c, args |-> a, sent |-> r.sent,
                received |-> r.received, outcome |-> r.outcome,
                result |-> r.result, parsed |-> r.parsed]
    /\ UNCHANGED defaultAppInfo

\* ------------------------------------------------------------------ inputs
Credentials == {<<"key1", "secret1">>, <<"key2", "secret2">>}

TrackingIds == {None, PyStr(<<>>), PyStr(<<"abc123">>)}

EN == PyStr(<<"EN">>)
USD == PyStr(<<"USD">>)
Signature == PyStr(<<"sig">>)

Opt(supplied, x) == IF supplied THEN x ELSE None

Words == {<<"a">>, <<"b">>}

\* A list-or-scalar argument: None, a string (empty, one word, or two words
\* with a comma between them), or a list of words.
ListOrScalar ==
    {None}
    \cup {PyStr(w) : w \in {<<>>, <<"a">>, <<"a", ",", "b">>}}
    \cup {PyList(l) : l \in SeqsUpTo(Words, MaxList)}

ProductIds == ListOrScalar \ {None, PyStr(<<>>)}

DeliveryDays == {None, PyInt(3), PyInt(15)}

LinkTypes == {PyStr(<<"NORMAL">>), PyStr(<<"HOT">>)}

DetailsArgs(d) ==
    {[product_ids |-> p, fields |-> f, country |-> Opt(o, PyStr(<<"ES">>))] :
        p \in d.lists \cap ProductIds, f \in d.lists, o \in d.supplied}

LinksArgs(d) ==
    {[links |-> l, link_type |-> t] : l \in d.lists, t \in LinkTypes}

QueryArgs(d) ==
    {[category_ids |-> ci, delivery_days |-> dd, fields |-> f,
      keywords |-> Opt(o, PyStr(<<"kw">>)),
      max_sale_price |-> Opt(o, PyInt(3141)),
      min_sale_price |-> Opt(o, PyInt(100)),
      page_no |-> Opt(o, PyInt(1)),
      page_size |-> Opt(o, PyInt(50)),
      platform_product_type |-> Opt(o, PyStr(<<"ALL">>)),
      ship_to_country |-> Opt(o, PyStr(<<"ES">>)),
      sort |-> Opt(o, PyStr(<<"SALE_PRICE_ASC">>))] :
        ci \in d.lists, dd \in d.days, f \in d.lists, o \in d.supplied}

NoArgs == [use_cache |-> FALSE]

ParentArgs == {[use_cache |-> u] : u \in BOOLEAN}

ChildArgs ==
    {[use_cache |-> u, parent_category_id |-> p] : u \in BOOLEAN, p \in ParentIds}

\* Every value of every argument.
AllInputs == [lists |-> ListOrScalar, days |-> DeliveryDays, supplied |-> BOOLEAN]

\* One value of every argument.
FewInputs ==
    [lists |-> {PyList(<<<<"a">>, <<"b">>>>)}, days |-> {PyInt(3)}, supplied |-> {TRUE}]

SmartArgs(d) ==
    {[device_id |-> PyStr(<<"dev">>),
      app |-> Opt(oa, PyStr(<<"app">>)),
      country |-> Opt(o, PyStr(<<"ES">>)),
      device |-> Opt(o, PyStr(<<"mobile">>)),
      fields |-> f,
      keywords |-> Opt(o, PyStr(<<"kw">>)),
      page_no |-> Opt(o, PyInt(1)),
      product_id |-> Opt(o, PyStr(<<"1">>)),
      site |-> Opt(o, PyStr(<<"site">>)),
      target_currency |-> Opt(o, PyStr(<<"EUR">>)),
      target_language |-> Opt(o, PyStr(<<"ES">>)),
      tracking_id |-> Opt(o, PyStr(<<"abc123">>)),
      user |-> Opt(o, PyStr(<<"user">>))] :
        f \in d.lists, oa \in d.supplied, o \in d.supplied}

OrderArgs(d) ==
    {[status |-> PyStr(<<"Payment Completed">>),
      start_time |-> PyStr(<<"2024-01-01 00:00:00">>),
      end_time |-> PyStr(<<"2024-01-31 00:00:00">>),
      fields |-> f,
      locale_site |-> Opt(o, PyStr(<<"ru_site">>)),
      page_no |-> Opt(o, PyInt(1)),
      page_size |-> Opt(o, PyInt(50))] :
        f \in d.lists, o \in d.supplied}

RawRecords == {"r1", "r2"}

\* Every answer of the transport to a product, link or order request.
Responses ==
    TransportErrors
    \cup {EnvelopeWithout(f) : f \in {"missing", "falsy"}}
    \cup {Envelope(r) : r \in SeqsUpTo(RawRecords, MaxRecords)}

\* Every answer of the transport to a category request.
\* A listing names no category twice.
Distinct(l) == \A i, j \in 1..Len(l) : l[i] = l[j] => i = j

CategoryResponses ==
    TransportErrors
    \cup {Envelope(r) : r \in {l \in SeqsUpTo(AllCategories, MaxCats) : Distinct(l)}}

FewResponses ==
    {TransportError("ApiRequestException"), Envelope(<<>>), Envelope(<<"r1">>)}

FewCategoryResponses ==
    {TransportError("ApiRequestException"), Envelope(<<>>),
     Envelope(<<Category(1), ChildCategory(2, 100)>>)}

\* -------------------------------------------------------------- behaviours
ConstructAny(credentials, trackingIds) ==
    \E kp \in credentials, t \in trackingIds :
        Construct(kp[1], kp[2], EN, USD, t, Signature)

\* The actions: one call of one method on some client, with arguments drawn
\* from d and the transport's answer from responses.
GetProductsDetails(d, responses) ==
    \E c \in 1..Len(clients), a \in DetailsArgs(d), resp \in responses :
        Invoke(c, "get_products_details", a, get_products_details(clients[c], a, resp))

GetAffiliateLinks(d, responses) ==
    \E c \in 1..Len(clients), a \in LinksArgs(d), resp \in responses :
        Invoke(c, "get_affiliate_links", a, get_affiliate_links(clients[c], a, resp))

GetHotproducts(d, responses) ==
    \E c \in 1..Len(clients), a \in QueryArgs(d), resp \in responses :
        Invoke(c, "get_hotproducts", a, get_hotproducts(clients[c], a, resp))

GetProducts(d, responses) ==
    \E c \in 1..Len(clients), a \in QueryArgs(d), resp \in responses :
        Invoke(c, "get_products", a, get_products(clients[c], a, resp))

GetCategories(responses) ==
    \E c \in 1..Len(clients), resp \in responses :
        Invoke(c, "get_categories", NoArgs, get_categories(clients[c], NoArgs, resp))

GetParentCategories(responses) ==
    \E c \in 1..Len(clients), a \in ParentArgs, resp \in responses :
        Invoke(c, "get_parent_categories", a,
               get_parent_categories(clients[c], a, resp))

GetChildCategories(responses) ==
    \E c \in 1..Len(clients), a \in ChildArgs, resp \in responses :
        Invoke(c, "get_child_categories", a, get_child_categories(clients[c], a, resp))

SmartMatchProduct(d, responses) ==
    \E c \in 1..Len(clients), a \in SmartArgs(d), resp \in responses :
        Invoke(c, "smart_match_product", a, smart_match_product(clients[c], a, resp))

GetOrderList(d, responses) ==
    \E c \in 1..Len(clients), a \in OrderArgs(d), resp \in responses :
        Invoke(c, "get_order_list", a, get_order_list(clients[c], a, resp))

\* One client and any sequence of calls on it, with every answer of the
\* transport.
Next ==
    \/ clients = <<>> /\ ConstructAny({<<"key1", "secret1">>}, TrackingIds)
    \/ GetProductsDetails(FewInputs, Responses)
    \/ GetAffiliateLinks(FewInputs, Responses)
    \/ GetHotproducts(FewInputs, Responses)
    \/ GetProducts(FewInputs, Responses)
    \/ GetCategories(CategoryResponses)
    \/ GetParentCategories(CategoryResponses)
    \/ GetChildCategories(CategoryResponses)
    \/ SmartMatchProduct(FewInputs, Responses)
    \/ GetOrderList(FewInputs, Responses)

Spec == Init /\ [][Next]_vars

\* One client and its first call, with every value of every argument.
FirstCall == last.op = "__init__"

NextReq ==
    \/ clients = <<>> /\ ConstructAny(Credentials, TrackingIds)
    \/ FirstCall /\ GetProductsDetails(AllInputs, FewResponses)
    \/ FirstCall /\ GetAffiliateLinks(AllInputs, FewResponses)
    \/ FirstCall /\ GetHotproducts(AllInputs, FewResponses)
    \/ FirstCall /\ GetProducts(AllInputs, FewResponses)
    \/ FirstCall /\ GetCategories(FewCategoryResponses)
    \/ FirstCall /\ GetParentCategories(FewCategoryResponses)
    \/ FirstCall /\ GetChildCategories(FewCategoryResponses)
    \/ FirstCall /\ SmartMatchProduct(AllInputs, FewResponses)
    \/ FirstCall /\ GetOrderList(AllInputs, FewResponses)

ReqSpec == Init /\ [][NextReq]_vars

\* Several clients in one process and any sequence of calls on them.
NextProc ==
    \/ Len(clients) < MaxClients /\ ConstructAny(Credentials, {PyStr(<<"abc123">>)})
    \/ GetProductsDetails(FewInputs, FewResponses)
    \/ GetAffiliateLinks(FewInputs, FewResponses)
    \/ GetHotproducts(FewInputs, FewResponses)
    \/ GetProducts(FewInputs, FewResponses)
    \/ GetCategories(FewCategoryResponses)
    \/ GetParentCategories(FewCategoryResponses)
    \/ GetChildCategories(FewCategoryResponses)
    \/ SmartMatchProduct(FewInputs, FewResponses)
    \/ GetOrderList(FewInputs, FewResponses)

ProcSpec == Init /\ [][NextProc]_vars

\* ------------------------------------------------------------ properties
\* The latest invocation got an answer from the transport, and it was an
\* envelope (not a failure).
GotEnvelope == last.received # <<>> /\ last.received[1].error = ""

Accessors == {"get_parent_categories", "get_child_categories"}

\* C1: on a client whose tracking id is None or empty, get_affiliate_links
\* raises InvalidTrackingIdException and makes no transport call, whatever
\* links and link_type are.
C1_NoTrackingIdNoCall ==
    (/\ last.op = "get_affiliate_links"
     /\ clients[last.client].tracking_id \in {None, PyStr(<<>>)})
    => /\ last.outcome = "InvalidTrackingIdException"
       /\ last.sent = <<>>

C1_Witness ==
    /\ last.op = "get_affiliate_links"
    /\ clients[last.client].tracking_id = PyStr(<<>>)
    /\ last.args.links = PyList(<<<<"a">>, <<"b">>>>)
    /\ last.args.link_type = PyStr(<<"HOT">>)
    /\ last.outcome = "InvalidTrackingIdException"
    /\ last.sent = <<>>

\* C2: once a client has fetched its categories successfully, the parent and
\* child accessors called with use_cache=True make no transport call and
\* answer from the cached list; called with use_cache=False they make exactly
\* one transport call, whatever the cache holds.
C2_CacheReuse ==
    [][last'.op \in Accessors =>
          LET c == last'.client
              cached == clients[c].categories
          IN  /\ (last'.args.use_cache /\ fetched[c] # NoCategories) =>
                    /\ last'.sent = <<>>
                    /\ last'.outcome = "return"
                    /\ clients'[c].categories = cached
                    /\ last'.result =
                         IF last'.op = "get_parent_categories"
                         THEN SelectSeq(cached.list, LAMBDA x : ~x.has_parent)
                         ELSE SelectSeq(cached.list,
                                LAMBDA x : /\ x.has_parent
                                           /\ x.parent_category_id =
                                                last'.args.parent_category_id)
              /\ ~last'.args.use_cache => Len(last'.sent) = 1]_vars

C2_Witness ==
    /\ last.op = "get_child_categories"
    /\ last.args.use_cache
    /\ last.sent = <<>>
    /\ Len(fetched[last.client].list) = 3
    /\ Len(last.result) = 1

\* The exception an operation raises when nothing is found.
NotFound(op) ==
    CASE op = "get_categories" -> "CategoriesNotFoudException"
      [] op = "get_order_list" -> "OrdersNotFoundException"
      [] OTHER -> "ProductsNotFoudException"

FetchOperations ==
    {"get_products_details", "get_affiliate_links", "get_hotproducts", "get_products",
     "get_categories", "smart_match_product", "get_order_list"}

ZeroCount ==
    /\ last.op \in FetchOperations
    /\ GotEnvelope
    /\ last.received[1].count = 0

C4_CacheIsLatestFetch ==
    \A c \in 1..Len(clients) : clients[c].categories = fetched[c]

\* A failed refresh after a successful fetch left the cached list in place.
C4_Witness ==
    /\ last.op \in Accessors \cup {"get_categories"}
    /\ last.sent # <<>>
    /\ last.outcome \in {"CategoriesNotFoudException", "ApiRequestException"}
    /\ Len(clients[last.client].categories.list) = 2

Methods == FetchOperations \cup Accessors

\* C5: an invocation makes at most one transport call; it makes exactly one
\* when its precondition holds (a tracking id, for get_affiliate_links) and it
\* is not an accessor answered from the cache; a failure of that call is the
\* invocation's outcome, with no second call and the client left as it was.
C5_OneCallNoRetry ==
    [][last'.op \in Methods =>
          LET c == last'.client
              precondition ==
                  last'.op = "get_affiliate_links" => Truthy(clients[c].tracking_id)
              fromCache ==
                  /\ last'.op \in Accessors
                  /\ last'.args.use_cache
                  /\ HasCategories(clients[c].categories)
          IN  /\ Len(last'.sent) <= 1
              /\ (precondition /\ ~fromCache) => Len(last'.sent) = 1
              /\ (last'.received # <<>> /\ last'.received[1].error # "") =>
                    /\ last'.outcome = last'.received[1].error
                    /\ Len(last'.sent) = 1
                    /\ clients' = clients]_vars

C5_Witness ==
    /\ last.op = "get_parent_categories"
    /\ Len(last.sent) = 1
    /\ last.received[1].error = "ApiRequestResponseException"
    /\ last.outcome = "ApiRequestResponseException"

\* C6: smart_match_product raises ProductsNotFoudException exactly when the
\* envelope has no products field or a falsy one; otherwise it returns the
\* envelope with its products parsed, whatever the envelope's record count.
C6_SmartMatchByProductsField ==
    (last.op = "smart_match_product" /\ GotEnvelope) =>
        LET resp == last.received[1]
        IN  IF resp.field \in {"missing", "falsy"}
            THEN last.outcome = "ProductsNotFoudException"
            ELSE /\ last.outcome = "return"
                 /\ last.result.count = resp.count
                 /\ Len(last.result.products) = Len(resp.records)
                 /\ \A i \in 1..Len(resp.records) :
                        last.result.products[i] = [parsed |-> resp.records[i]]

\* A products object with a record count of 0 is returned, not refused.
C6_Witness ==
    /\ last.op = "smart_match_product"
    /\ GotEnvelope
    /\ last.received[1].field = "object"
    /\ last.received[1].count = 0
    /\ last.outcome = "return"

\* The elements of l at the positions in at, in the order of l.
ElementsAt(l, at) ==
    [k \in 1..Cardinality(at) |->
        l[CHOOSE i \in at : Cardinality({j \in at : j <= i}) = k]]

\* The positions of the cached children of parent p, and of the cached
\* categories that have no parent id.
ChildrenAt(cache, p) ==
    {i \in 1..Len(cache) : cache[i].has_parent /\ cache[i].parent_category_id = p}
ParentsAt(cache) == {i \in 1..Len(cache) : ~cache[i].has_parent}

Normalized(value) ==
    CASE value.t = "none" -> None
      [] value.t = "list" -> IF value.l = <<>> THEN None ELSE PyStr(Join(value.l))
      [] value.t = "str" -> IF value.s = <<>> THEN None ELSE PyStr(Join(<<value.s>>))

QueryOperations == {"get_hotproducts", "get_products"}

\* C8, as claimed: every list-or-scalar input (product ids, field names,
\* category ids, links, the fields of get_order_list) reaches the request
\* normalised: a list comma-joined, a string as its singleton list, None and
\* empty inputs as None.
C8_ListInputsNormalized ==
    last.sent # <<>> =>
        LET request == last.sent[1].request
            a == last.args
        IN  /\ last.op = "get_products_details" =>
                  /\ request.product_ids = Normalized(a.product_ids)
                  /\ request.fields = Normalized(a.fields)
            /\ last.op = "get_affiliate_links" =>
                  request.source_values = Normalized(a.links)
            /\ last.op \in QueryOperations =>
                  /\ request.category_ids = Normalized(a.category_ids)
                  /\ request.fields = Normalized(a.fields)
            /\ last.op = "smart_match_product" => request.fields = Normalized(a.fields)
            /\ last.op = "get_order_list" => request.fields = Normalized(a.fields)

\* C9, as claimed: every request field holds the same-named parameter or the
\* client default unchanged, but for the comma-join of list inputs and the
\* stringification of a supplied delivery_days; an omitted parameter reaches
\* the request as None.
C9_RequestMirrorsParameters ==
    last.sent # <<>> =>
        LET request == last.sent[1].request
            a == last.args
            self == clients[last.client]
        IN  /\ request.app_signature = self.app_signature
            /\ last.op = "get_products_details" =>
                  /\ request.country = a.country
                  /\ request.target_currency = self.currency
                  /\ request.target_language = self.language
                  /\ request.tracking_id = self.tracking_id
            /\ last.op = "get_affiliate_links" =>
                  /\ request.promotion_link_type = a.link_type
                  /\ request.tracking_id = self.tracking_id
            /\ last.op \in QueryOperations =>
                  /\ request.delivery_days =
                         IF a.delivery_days = None THEN None ELSE str(a.delivery_days)
                  /\ request.keywords = a.keywords
                  /\ request.max_sale_price = a.max_sale_price
                  /\ request.min_sale_price = a.min_sale_price
                  /\ request.page_no = a.page_no
                  /\ request.page_size = a.page_size
                  /\ request.platform_product_type = a.platform_product_type
                  /\ request.ship_to_country = a.ship_to_country
                  /\ request.sort = a.sort
                  /\ request.target_currency = self.currency
                  /\ request.target_language = self.language
                  /\ request.tracking_id = self.tracking_id
            /\ last.op = "smart_match_product" =>
                  /\ request.app = a.app
                  /\ request.country = a.country
                  /\ request.device = a.device
                  /\ request.device_id = a.device_id
                  /\ request.keywords = a.keywords
                  /\ request.page_no = a.page_no
                  /\ request.product_id = a.product_id
                  /\ request.site = a.site
                  /\ request.target_currency = a.target_currency
                  /\ request.target_language = a.target_language
                  /\ request.tracking_id = a.tracking_id
                  /\ request.user = a.user
            /\ last.op = "get_order_list" =>
                  /\ request.start_time = a.start_time
                  /\ request.end_time = a.end_time
                  /\ request.locale_site = a.locale_site
                  /\ request.page_no = a.page_no
                  /\ request.page_size = a.page_size
                  /\ request.status = a.status

\* C10: the process-wide signing context holds the key and secret of the
\* client constructed last, and every transport call of every client is sent
\* under it: no operation writes or restores the context.
C10_LastConstructedSigns ==
    clients # <<>> =>
        LET newest == clients[Len(clients)]
            context == [key |-> newest.key, secret |-> newest.secret]
        IN  /\ defaultAppInfo = context
            /\ \A i \in 1..Len(last.sent) : last.sent[i].appinfo = context

\* The first of two clients with different credentials makes a call, and the
\* call is sent under the second client's credentials.
C10_Witness ==
    /\ Len(clients) = 2
    /\ clients[1].key # clients[2].key
    /\ last.client = 1
    /\ last.sent # <<>>
    /\ last.sent[1].appinfo.key = clients[2].key
    /\ last.sent[1].appinfo.secret = clients[2].secret

====
